---------------------------- MODULE Spec2Model ----------------------------
(***************************************************************************)
(* Model of donkomura/hash_bench: the quotient filter                      *)
(* (src/src/quotient_filter.rs) and the linked consistent hash ring        *)
(* (src/src/hash_ring.rs).                                                 *)
(*                                                                         *)
(* A slot is the packed u64 word of the source: bits 0..2 are the          *)
(* occupied / continued / shifted flags, the remainder sits above them.    *)
(* Remainders of the model are far below 2^61, so the left shift of        *)
(* set_remainder never drops a bit and is modelled without wrap-around.    *)
(***************************************************************************)
EXTENDS Integers, Sequences, FiniteSets

(***************************************************************************)
(* Bounds of the model.                                                    *)
(***************************************************************************)
MaxQ == 2          \* new(q, r) is tried for q in 1..MaxQ
R == 1             \* remainder width r of every filter of the model
KeyBits == 3       \* insert draws its key from 0 .. 2^KeyBits - 1
MaxInserts == 5    \* number of calls (insert, resize, merge) in one behaviour
MaxResizes == 1    \* number of explicit resize() calls in one behaviour
MaxMerges == 1     \* number of merge calls in one behaviour
MaxOtherInserts == 2   \* number of insert calls on the argument of merge

Pow2(n) == 2 ^ n
Keys == 0 .. (Pow2(KeyBits) - 1)

VARIABLES
    qf,          \* the QuotientFilter: [q, r, entries, size, filter, home]
    qfHung,      \* TRUE once a loop of the filter ran past its step budget
    q0,          \* history: the q the filter was created with
    inserted,    \* history: key -> number of insert(key) calls so far
    calls,       \* history: total number of insert calls
    other,       \* a second QuotientFilter, the argument of merge
    otherIns,    \* history: key -> number of other.insert(key) calls so far
    otherCalls,  \* history: total number of other.insert calls
    qfPanicked,  \* TRUE once merge has failed its assert_eq
    op,          \* history: the operation that produced this state
    resizes,     \* history: number of explicit resize() calls
    merges       \* history: number of merge calls

qfVars == <<qf, qfHung, q0, inserted, calls, other, otherIns, otherCalls,
            qfPanicked, op, resizes, merges>>

(***************************************************************************)
(* Slot (quotient_filter.rs:1-61)                                          *)
(***************************************************************************)
FLAG_BITS == 3
FLAG_MASK == Pow2(FLAG_BITS) - 1
FLAG_OCCUPIED == 1
FLAG_CONTINUED == 2
FLAG_SHIFTED == 4

\* (data & flag) != 0 for a one-bit flag
HasFlag(data, flag) == (data \div flag) % 2 = 1
\* data |= flag  /  data &= !flag
WithFlag(data, flag, value) ==
    IF value
    THEN (IF HasFlag(data, flag) THEN data ELSE data + flag)
    ELSE (IF HasFlag(data, flag) THEN data - flag ELSE data)

is_empty(data) == data = 0
remainder(data) == data \div Pow2(FLAG_BITS)
set_remainder(data, rem) == rem * Pow2(FLAG_BITS) + (data % (FLAG_MASK + 1))
is_occupied(data) == HasFlag(data, FLAG_OCCUPIED)
set_occupied(data, value) == WithFlag(data, FLAG_OCCUPIED, value)
is_continued(data) == HasFlag(data, FLAG_CONTINUED)
set_continued(data, value) == WithFlag(data, FLAG_CONTINUED, value)
is_shifted(data) == HasFlag(data, FLAG_SHIFTED)
set_shifted(data, value) == WithFlag(data, FLAG_SHIFTED, value)

(***************************************************************************)
(* QuotientFilter (quotient_filter.rs:63-293)                              *)
(*                                                                         *)
(* filter is the slot table, indexed 0 .. size-1.  home is a history       *)
(* field that the source does not have: home[i] is the q_idx of the insert *)
(* call that wrote the remainder now stored in slot i (it travels with the *)
(* remainder when insert shifts it); a slot never written names itself.    *)
(***************************************************************************)
\* the result of a loop that does not stop
Diverged == -1

qf_new(q, r) ==
    [q |-> q, r |-> r, entries |-> 0, size |-> Pow2(q),
     filter |-> [i \in 0 .. (Pow2(q) - 1) |-> 0],
     home |-> [i \in 0 .. (Pow2(q) - 1) |-> i]]

prev_index(f, idx) == (idx + f.size - 1) % f.size
next_index(f, idx) == (idx + 1) % f.size

\* Every loop of the source is run with a step budget; a loop that uses it
\* up has not terminated.
Budget(f) == 2 * f.size + 2

RECURSIVE WalkBack(_, _, _)
WalkBack(f, bucket, fuel) ==
    IF fuel = 0 THEN Diverged
    ELSE IF is_shifted(f.filter[bucket])
         THEN WalkBack(f, prev_index(f, bucket), fuel - 1)
         ELSE bucket

RECURSIVE SkipContinued(_, _, _)
SkipContinued(f, idx, fuel) ==
    IF fuel = 0 THEN Diverged
    ELSE IF is_continued(f.filter[idx])
         THEN SkipContinued(f, next_index(f, idx), fuel - 1)
         ELSE idx

RECURSIVE SkipUnoccupied(_, _, _)
SkipUnoccupied(f, idx, fuel) ==
    IF fuel = 0 THEN Diverged
    ELSE IF ~is_occupied(f.filter[idx])
         THEN SkipUnoccupied(f, next_index(f, idx), fuel - 1)
         ELSE idx

RECURSIVE RunWalk(_, _, _, _, _)
RunWalk(f, run_head, probe, home_idx, fuel) ==
    IF probe = home_idx THEN run_head
    ELSE IF fuel = 0 THEN Diverged
    ELSE LET rh == SkipContinued(f, next_index(f, run_head), Budget(f))
             pr == SkipUnoccupied(f, next_index(f, probe), Budget(f))
         IN  IF rh = Diverged \/ pr = Diverged THEN Diverged
             ELSE RunWalk(f, rh, pr, home_idx, fuel - 1)

find_run_head(f, home_idx) ==
    LET bucket == WalkBack(f, home_idx, Budget(f))
    IN  IF bucket = Diverged THEN Diverged
        ELSE RunWalk(f, bucket, bucket, home_idx, Budget(f))

\* visit_run: the slot indices the closure is called with, in call order;
\* <<Diverged>> when the loop does not stop.
RECURSIVE VisitTail(_, _, _)
VisitTail(f, idx, fuel) ==
    IF fuel = 0 THEN <<Diverged>>
    ELSE IF is_continued(f.filter[idx])
         THEN <<idx>> \o VisitTail(f, next_index(f, idx), fuel - 1)
         ELSE <<>>

visit_run(f, run_head) == <<run_head>> \o VisitTail(f, next_index(f, run_head), Budget(f))

split(f, key) ==
    [quotient |-> (key \div Pow2(f.r)) % Pow2(f.q),
     remainder |-> key % Pow2(f.r)]

\* collect_keys: <<Diverged>> somewhere in the result when a walk does not stop
RECURSIVE CollectFrom(_, _)
CollectFrom(f, quotient_idx) ==
    IF quotient_idx >= f.size THEN <<>>
    ELSE IF ~is_occupied(f.filter[quotient_idx]) THEN CollectFrom(f, quotient_idx + 1)
    ELSE LET run_head == find_run_head(f, quotient_idx)
             slots == IF run_head = Diverged THEN <<Diverged>> ELSE visit_run(f, run_head)
             keyOf(slot_idx) ==
                 IF slot_idx = Diverged THEN Diverged
                 ELSE quotient_idx * Pow2(f.r) + remainder(f.filter[slot_idx])
         IN  [n \in 1 .. Len(slots) |-> keyOf(slots[n])] \o CollectFrom(f, quotient_idx + 1)

collect_keys(f) == IF f.entries = 0 THEN <<>> ELSE CollectFrom(f, 0)

Ret(v) == [done |-> TRUE, val |-> v]
Hang == [done |-> FALSE, val |-> qf_new(0, 0)]

\* the copy loop carrying the whole slot word, occupied bit included
RECURSIVE ShiftLoop_MovesOccupied(_, _, _)
ShiftLoop_MovesOccupied(f, curr, insert_pos) ==
    IF curr = insert_pos THEN f
    ELSE LET prev == prev_index(f, curr)
         IN  ShiftLoop_MovesOccupied(
                 [f EXCEPT !.filter[curr] = set_shifted(f.filter[prev], TRUE),
                           !.home[curr] = f.home[prev]],
                 prev, insert_pos)

\* the copy loop without set_shifted(true) on the slot it fills
RECURSIVE ShiftLoop_KeepsShifted(_, _, _)
ShiftLoop_KeepsShifted(f, curr, insert_pos) ==
    IF curr = insert_pos THEN f
    ELSE LET prev == prev_index(f, curr)
             prev_slot == f.filter[prev]
             moved == set_continued(
                          set_remainder(f.filter[curr], remainder(prev_slot)),
                          is_continued(prev_slot))
         IN  ShiftLoop_KeepsShifted(
                 [f EXCEPT !.filter[curr] = moved, !.home[curr] = f.home[prev]],
                 prev, insert_pos)

\* the backward copy loop of insert (quotient_filter.rs:240-248)
RECURSIVE ShiftLoop(_, _, _)
ShiftLoop(f, curr, insert_pos) ==
    IF curr = insert_pos THEN f
    ELSE LET prev == prev_index(f, curr)
             prev_slot == f.filter[prev]
             moved == set_shifted(
                          set_continued(
                              set_remainder(f.filter[curr], remainder(prev_slot)),
                              is_continued(prev_slot)),
                          TRUE)
         IN  ShiftLoop([f EXCEPT !.filter[curr] = moved, !.home[curr] = f.home[prev]],
                       prev, insert_pos)

\* the in-run scan with the remainder comparison reversed
RECURSIVE ScanRun_Reversed(_, _, _, _)
ScanRun_Reversed(f, pos, rem, fuel) ==
    IF fuel = 0 THEN Diverged
    ELSE LET nxt == next_index(f, pos)
         IN  IF is_continued(f.filter[nxt]) /\ remainder(f.filter[nxt]) > rem
             THEN ScanRun_Reversed(f, nxt, rem, fuel - 1)
             ELSE nxt

\* the in-run scan of insert (quotient_filter.rs:213-220)
RECURSIVE ScanRun(_, _, _, _)
ScanRun(f, pos, rem, fuel) ==
    IF fuel = 0 THEN Diverged
    ELSE LET nxt == next_index(f, pos)
         IN  IF is_continued(f.filter[nxt]) /\ remainder(f.filter[nxt]) < rem
             THEN ScanRun(f, nxt, rem, fuel - 1)
             ELSE nxt

\* the search for the next empty slot (quotient_filter.rs:234-237)
RECURSIVE FindEmpty(_, _, _)
FindEmpty(f, pos, fuel) ==
    IF fuel = 0 THEN Diverged
    ELSE IF ~is_empty(f.filter[pos]) THEN FindEmpty(f, next_index(f, pos), fuel - 1)
         ELSE pos

RECURSIVE qf_insert(_, _)
RECURSIVE InsertAll(_, _)
RECURSIVE resize(_)

\* for key in keys { f.insert(key) }
InsertAll(fr, keys) ==
    IF ~fr.done \/ keys = <<>> THEN fr
    ELSE IF Head(keys) = Diverged THEN Hang
    ELSE InsertAll(qf_insert(fr.val, Head(keys)), Tail(keys))

\* a resize whose new table starts from the old entry count
resize_CarriesEntries(f) ==
    InsertAll(Ret([qf_new(f.q + 1, f.r) EXCEPT !.entries = f.entries]), collect_keys(f))

resize(f) ==
    LET new_q == f.q + 1
        keys == collect_keys(f)
    IN  InsertAll(Ret(qf_new(new_q, f.r)), keys)

\* insert after the resize check (quotient_filter.rs:196-261)
InsertBody(f, key) ==
    LET sp == split(f, key)
        rem == sp.remainder
        q_idx == sp.quotient
    IN
    IF is_empty(f.filter[q_idx])
    THEN Ret([f EXCEPT !.filter[q_idx] = set_occupied(set_remainder(@, rem), TRUE),
                       !.home[q_idx] = q_idx,
                       !.entries = @ + 1])
    ELSE
    LET already_occupied == is_occupied(f.filter[q_idx])
        f1 == [f EXCEPT !.filter[q_idx] = set_occupied(@, TRUE)]
        run_head == find_run_head(f1, q_idx)
    IN
    IF run_head = Diverged THEN Hang
    ELSE
    LET insert_pos ==
            IF ~is_empty(f1.filter[run_head]) /\ remainder(f1.filter[run_head]) < rem
            THEN ScanRun(f1, run_head, rem, Budget(f1))
            ELSE run_head
    IN
    IF insert_pos = Diverged THEN Hang
    ELSE
    LET inserting_at_head == insert_pos = run_head
        written(data) ==
            set_continued(
                set_shifted(set_remainder(data, rem), insert_pos # q_idx),
                already_occupied /\ ~inserting_at_head)
    IN
    IF is_empty(f1.filter[insert_pos])
    THEN Ret([f1 EXCEPT !.filter[insert_pos] = written(@),
                        !.home[insert_pos] = q_idx,
                        !.entries = @ + 1])
    ELSE
    LET empty_pos == FindEmpty(f1, insert_pos, Budget(f1))
    IN
    IF empty_pos = Diverged THEN Hang
    ELSE
    LET f2 == ShiftLoop(f1, empty_pos, insert_pos)
        f3 == [f2 EXCEPT !.filter[insert_pos] = written(@),
                         !.home[insert_pos] = q_idx]
        next == next_index(f3, insert_pos)
        f4 == IF inserting_at_head
              THEN [f3 EXCEPT !.filter[next] = set_continued(@, TRUE)]
              ELSE f3
    IN  Ret([f4 EXCEPT !.entries = @ + 1])

\* insert without the resize of a full table
qf_insert_NeverResizes(f, key) == InsertBody(f, key)

\* insert that resizes one entry before the table is full
qf_insert_ResizesEarly(f, key) ==
    LET fr == IF f.entries + 1 >= f.size THEN resize(f) ELSE Ret(f)
    IN  IF ~fr.done THEN Hang ELSE InsertBody(fr.val, key)

qf_insert(f, key) ==
    LET fr == IF f.entries = f.size THEN resize(f) ELSE Ret(f)
    IN  IF ~fr.done THEN Hang ELSE InsertBody(fr.val, key)

\* while capacity < total_entries { target_q += 1; ... }
RECURSIVE GrowCapacity(_, _)
GrowCapacity(target_q, total_entries) ==
    IF Pow2(target_q) < total_entries
    THEN GrowCapacity(target_q + 1, total_entries)
    ELSE target_q

\* merge without the assert_eq on r
merge_NoWidthCheck(f, g) ==
    LET keys_self == collect_keys(f)
        keys_other == collect_keys(g)
        keys == keys_self \o keys_other
    IN  IF \E n \in 1 .. Len(keys) : keys[n] = Diverged
        THEN [done |-> FALSE, panic |-> FALSE, val |-> f]
        ELSE LET target_q == GrowCapacity(IF f.q >= g.q THEN f.q ELSE g.q, Len(keys))
                 merged == InsertAll(Ret(qf_new(target_q, f.r)), keys)
             IN  [done |-> merged.done, panic |-> FALSE, val |-> merged.val]

\* merge: panic is TRUE when the assert_eq on r fails.  checked_shl never
\* fails here: every q of the model is far below the word width.
merge(f, g) ==
    IF f.r # g.r THEN [done |-> FALSE, panic |-> TRUE, val |-> f]
    ELSE
    LET keys_self == collect_keys(f)
        keys_other == collect_keys(g)
        keys == keys_self \o keys_other
    IN  IF \E n \in 1 .. Len(keys) : keys[n] = Diverged
        THEN [done |-> FALSE, panic |-> FALSE, val |-> f]
        ELSE LET target_q == GrowCapacity(IF f.q >= g.q THEN f.q ELSE g.q, Len(keys))
                 merged == InsertAll(Ret(qf_new(target_q, f.r)), keys)
             IN  [done |-> merged.done, panic |-> FALSE, val |-> merged.val]

\* lookup: "hit", "miss", or "hang" when a walk does not stop
RECURSIVE LookupTail(_, _, _, _)
LookupTail(f, idx, rem, fuel) ==
    IF fuel = 0 THEN "hang"
    ELSE IF is_continued(f.filter[idx])
         THEN IF remainder(f.filter[idx]) = rem THEN "hit"
              ELSE LookupTail(f, next_index(f, idx), rem, fuel - 1)
         ELSE "miss"

qf_lookup(f, key) ==
    LET sp == split(f, key)
        q_idx == sp.quotient
    IN  IF ~is_occupied(f.filter[q_idx]) THEN "miss"
        ELSE LET run_head == find_run_head(f, q_idx)
             IN  IF run_head = Diverged THEN "hang"
                 ELSE IF remainder(f.filter[run_head]) = sp.remainder THEN "hit"
                 ELSE LookupTail(f, next_index(f, run_head), sp.remainder, Budget(f))

(***************************************************************************)
(* The filter as a state machine.  qf is created by new(q, R) and other by *)
(* new(q, r) with r equal to R or not; then insert and resize calls on qf, *)
(* insert calls on other, and qf = qf.merge(&other).                       *)
(***************************************************************************)
\* the (q, r) tried for the argument of merge: every q with the r of qf, and
\* one filter of another r
OtherShapes == {<<q, R>> : q \in 1 .. MaxQ} \cup {<<1, R + 1>>}

\* history: the number of calls made so far
Steps == calls + otherCalls + resizes + merges

InitQF ==
    /\ \E q \in 1 .. MaxQ : qf = qf_new(q, R) /\ q0 = q
    /\ qfHung = FALSE
    /\ inserted = [k \in Keys |-> 0]
    /\ calls = 0
    /\ \E sh \in OtherShapes : other = qf_new(sh[1], sh[2])
    /\ otherIns = [k \in Keys |-> 0]
    /\ otherCalls = 0
    /\ qfPanicked = FALSE
    /\ op = "new"
    /\ resizes = 0
    /\ merges = 0

Insert(key) ==
    /\ ~qfHung /\ ~qfPanicked
    /\ Steps < MaxInserts
    /\ LET fr == qf_insert(qf, key)
       IN  IF fr.done
           THEN qf' = fr.val /\ qfHung' = FALSE
           ELSE qf' = qf /\ qfHung' = TRUE
    /\ inserted' = [inserted EXCEPT ![key] = @ + 1]
    /\ calls' = calls + 1
    /\ q0' = q0
    /\ op' = "insert"
    /\ UNCHANGED <<other, otherIns, otherCalls, qfPanicked, resizes, merges>>

\* qf.resize()
Resize ==
    /\ ~qfHung /\ ~qfPanicked
    /\ resizes < MaxResizes
    /\ Steps < MaxInserts
    /\ \E fr \in {resize(qf)} :
           IF fr.done
           THEN qf' = fr.val /\ qfHung' = FALSE
           ELSE qf' = qf /\ qfHung' = TRUE
    /\ op' = "resize"
    /\ resizes' = resizes + 1
    /\ UNCHANGED <<q0, inserted, calls, other, otherIns, otherCalls, qfPanicked, merges>>

\* other.insert(key)
InsertOther(key) ==
    /\ ~qfHung /\ ~qfPanicked
    /\ merges = 0
    /\ otherCalls < MaxOtherInserts
    /\ Steps < MaxInserts
    /\ \E fr \in {qf_insert(other, key)} :
           IF fr.done
           THEN other' = fr.val /\ qfHung' = FALSE
           ELSE other' = other /\ qfHung' = TRUE
    /\ otherIns' = [otherIns EXCEPT ![key] = @ + 1]
    /\ otherCalls' = otherCalls + 1
    /\ op' = "insert_other"
    /\ UNCHANGED <<qf, q0, inserted, calls, qfPanicked, resizes, merges>>

\* qf = qf.merge(&other)
Merge ==
    /\ ~qfHung /\ ~qfPanicked
    /\ merges < MaxMerges
    /\ Steps < MaxInserts
    /\ \E res \in {merge(qf, other)} :
           /\ qf' = IF res.done THEN res.val ELSE qf
           /\ qfHung' = (~res.done /\ ~res.panic)
           /\ qfPanicked' = res.panic
           /\ inserted' = IF res.done
                          THEN [k \in Keys |-> inserted[k] + otherIns[k]]
                          ELSE inserted
    /\ op' = "merge"
    /\ merges' = merges + 1
    /\ UNCHANGED <<q0, calls, other, otherIns, otherCalls, resizes>>

NextQF == \E key \in Keys : Insert(key)

NextQFOps ==
    \/ \E key \in Keys : Insert(key)
    \/ Resize
    \/ \E key \in Keys : InsertOther(key)
    \/ Merge

(***************************************************************************)
(* HashRing (hash_ring.rs)                                                 *)
(*                                                                         *)
(* A node is an Arc<Mutex<Node>>; the model names it by the order of its   *)
(* allocation (1, 2, ...).  A node that remove_node has unlinked stays     *)
(* allocated with its own prev and next untouched, exactly as the Arc      *)
(* keeps it alive for whoever still points to it.  resource is the key set *)
(* of the node's HashMap (add_resource stores every key under itself).     *)
(***************************************************************************)
RingK == 2         \* HashRing::new(RingK): positions 0 .. 2^RingK - 1
MaxNodes == 3      \* number of nodes add_node allocates in one behaviour
MaxResources == 2  \* number of add_resource calls in one behaviour

None == 0
RingMin == 0
RingMax == Pow2(RingK) - 1
\* arguments tried by the operations: the legal range and one position on
\* either side of it
Positions == (RingMin - 1) .. (RingMax + 1)

VARIABLES
    ring,            \* the HashRing and its nodes: [nodes, head, k, min, max]
    ringPanicked,    \* TRUE once an operation has panicked
    members,         \* history: nodes added by add_node and not yet removed
    resAdded,        \* history: positions passed to a successful add_resource
    emptied,         \* history: the last member was removed after a resource was added
    resCalls,        \* history: number of add_resource calls
    rop              \* history: the operation that produced this state

ringVars == <<ring, ringPanicked, members, resAdded, emptied, resCalls, rop>>

\* CountMinSketch (count_min_sketch.rs), modelled further below
VARIABLES
    cms,             \* the CountMinSketch: [width, depth, sketch]
    seeded,          \* mmh3(item, seed) for every item and seed
    overflowChecks,  \* the build panics on integer overflow (debug) or wraps (release)
    cmsPanicked,     \* TRUE once update has panicked
    updated,         \* history: the sum of freq over the update calls of each item
    updates          \* history: number of update calls

cmsVars == <<cms, seeded, overflowChecks, cmsPanicked, updated, updates>>

\* ---- the Bloom filter (bloom_filter.rs) ----
VARIABLES
    bloom,          \* the BloomFilter: n, m, k, bit_array
    bloomHashes,    \* mmh3 as a table: <<item, seed>> -> hash value
    bloomInserted,  \* the items insert was called with
    bloomCalls      \* number of insert calls so far

bloomVars == <<bloom, bloomHashes, bloomInserted, bloomCalls>>
\* ---- the ring on a BTreeMap (simple_ch.rs) ----
VARIABLES
    ch,         \* the HashRing: hasher (the bytes written so far) and nodes
    chOp,       \* the last call: kind, arguments, nodes before it, result
    chCalls     \* number of calls so far

chVars == <<ch, chOp, chCalls>>
vars == <<qfVars, ringVars, cmsVars, bloomVars, chVars>>

ring_new(k) == [nodes |-> <<>>, head |-> None, k |-> k, min |-> 0, max |-> Pow2(k) - 1]

\* legal_range that accepts one position past max
legal_range_PastMax(rs, hash) == rs.min <= hash /\ hash <= rs.max + 1

legal_range(rs, hash) == rs.min <= hash /\ hash <= rs.max

\* distance whose wrap is one short of 2^k
distance_ShortWrap(rs, a, b) ==
    IF a = b THEN 0
    ELSE IF a < b THEN b - a
    ELSE Pow2(rs.k) - 1 + (b - a)

\* distance without the wrap past 2^k
distance_NoWrap(rs, a, b) ==
    IF a = b THEN 0
    ELSE IF a < b THEN b - a
    ELSE a - b

distance(rs, a, b) ==
    IF a = b THEN 0
    ELSE IF a < b THEN b - a
    ELSE Pow2(rs.k) + (b - a)

get_node_value(rs, node_ref) == IF node_ref # None THEN rs.nodes[node_ref].value ELSE 0
get_head_value(rs) == get_node_value(rs, rs.head)
get_next_node_ref(rs, node_ref) == IF node_ref # None THEN rs.nodes[node_ref].next ELSE None
get_prev_node_ref(rs, node_ref) == IF node_ref # None THEN rs.nodes[node_ref].prev ELSE None
get_next_value(rs, node_ref) == get_node_value(rs, get_next_node_ref(rs, node_ref))

\* the while loop of lookup and the two returns after it.  Every iteration
\* moves to a node strictly nearer to hash, so the loop stops on any linking.
RECURSIVE LookupLoop(_, _, _)
LookupLoop(rs, hash, current) ==
    LET current_value == get_node_value(rs, current)
        next_node_ref == get_next_node_ref(rs, current)
        next_node_value == get_node_value(rs, next_node_ref)
        head_value == get_head_value(rs)
        result == IF current_value = hash THEN current ELSE next_node_ref
    IN  IF distance(rs, current_value, hash) > distance(rs, next_node_value, hash)
        THEN IF current_value = hash THEN result
             ELSE IF next_node_value = head_value THEN result
             ELSE LookupLoop(rs, hash, next_node_ref)
        ELSE result

ring_lookup(rs, hash) == LookupLoop(rs, hash, rs.head)

Ok(rs) == [rs |-> rs, panic |-> FALSE]
Panic(rs) == [rs |-> rs, panic |-> TRUE]

\* move_resource that takes every resource of src, nearer to dest or not
move_resource_TakesAll(rs, dest, src, is_delete) ==
    LET dest_node == ring_lookup(rs, dest)
        src_node == ring_lookup(rs, src)
    IN
    IF dest_node = None \/ src_node = None THEN Panic(rs)
    ELSE IF src # rs.nodes[src_node].value THEN Panic(rs)
    ELSE
    LET resources == rs.nodes[src_node].resource
        rs1 == [rs EXCEPT !.nodes[src_node].resource = @ \ resources]
    IN
    IF dest # rs1.nodes[dest_node].value THEN Panic(rs1)
    ELSE Ok([rs1 EXCEPT !.nodes[dest_node].resource = @ \cup resources])

move_resource(rs, dest, src, is_delete) ==
    LET dest_node == ring_lookup(rs, dest)
        src_node == ring_lookup(rs, src)
    IN
    IF dest_node = None \/ src_node = None THEN Panic(rs)
    ELSE IF src # rs.nodes[src_node].value THEN Panic(rs)
    ELSE
    LET resources == {key \in rs.nodes[src_node].resource :
                         distance(rs, key, dest) < distance(rs, key, src) \/ is_delete}
        rs1 == [rs EXCEPT !.nodes[src_node].resource = @ \ resources]
    IN
    IF dest # rs1.nodes[dest_node].value THEN Panic(rs1)
    ELSE Ok([rs1 EXCEPT !.nodes[dest_node].resource = @ \cup resources])

add_node_prev(rs, target, new_node) ==
    LET prev_node_ref == rs.nodes[target].prev
    IN  IF prev_node_ref = None THEN Panic(rs)
        ELSE LET rs1 == [rs EXCEPT !.nodes[target].prev = new_node]
                 rs2 == [rs1 EXCEPT !.nodes[new_node].prev = prev_node_ref,
                                    !.nodes[new_node].next = target]
             IN  Ok([rs2 EXCEPT !.nodes[prev_node_ref].next = new_node])

add_node(rs, hash) ==
    IF ~legal_range(rs, hash) THEN Panic(rs)
    ELSE
    LET new_node == Len(rs.nodes) + 1
        rs0 == [rs EXCEPT !.nodes = Append(@, [value |-> hash, resource |-> {},
                                               prev |-> None, next |-> None])]
        found == ring_lookup(rs0, hash)
        linked ==
            IF found # None THEN add_node_prev(rs0, found, new_node)
            ELSE IF rs0.head # None THEN add_node_prev(rs0, rs0.head, new_node)
            ELSE Ok([rs0 EXCEPT !.head = new_node,
                                !.nodes[new_node].next = new_node,
                                !.nodes[new_node].prev = new_node])
        next_node_value ==
            IF found # None THEN get_node_value(rs0, found)
            ELSE IF rs0.head # None THEN get_node_value(rs0, rs0.head)
            ELSE hash
    IN
    IF linked.panic THEN linked
    ELSE
    LET moved == move_resource(linked.rs, hash, next_node_value, FALSE)
    IN
    IF moved.panic THEN moved
    ELSE IF hash < get_head_value(moved.rs)
         THEN Ok([moved.rs EXCEPT !.head = new_node])
         ELSE moved

\* the second half of remove_node: take node_ref out of the list and move head
unlink(m, node_ref, hash) ==
    LET head_value == get_head_value(m)
        head_next_value == get_next_value(m, m.head)
        prev_node_ref == get_prev_node_ref(m, node_ref)
        next_node_ref == get_next_node_ref(m, node_ref)
        m1 == IF prev_node_ref # None
              THEN [m EXCEPT !.nodes[prev_node_ref].next = next_node_ref] ELSE m
        m2 == IF next_node_ref # None
              THEN [m1 EXCEPT !.nodes[next_node_ref].prev = prev_node_ref] ELSE m1
    IN  IF head_value = head_next_value
        THEN [m2 EXCEPT !.head = IF head_value = hash THEN None ELSE next_node_ref]
        ELSE m2

\* found is TRUE when remove_node got past its "not found" return
remove_node(rs, hash) ==
    LET node_ref == ring_lookup(rs, hash)
        node_value == get_node_value(rs, node_ref)
        next_value == get_next_value(rs, node_ref)
    IN
    IF node_value # hash THEN [rs |-> rs, panic |-> FALSE, found |-> FALSE, node |-> None]
    ELSE
    LET moved == move_resource(rs, next_value, node_value, TRUE)
    IN
    IF moved.panic THEN [rs |-> moved.rs, panic |-> TRUE, found |-> TRUE, node |-> node_ref]
    ELSE [rs |-> unlink(moved.rs, node_ref, hash), panic |-> FALSE, found |-> TRUE,
          node |-> node_ref]

add_resource(rs, hash) ==
    IF ~legal_range(rs, hash) THEN Panic(rs)
    ELSE LET node_ref == ring_lookup(rs, hash)
         IN  IF node_ref = None THEN Panic(rs)
             ELSE Ok([rs EXCEPT !.nodes[node_ref].resource = @ \cup {hash}])

\* The node handles an operation locks, in the order of its try_lock calls.
\* add_node_prev: target (line 229), new_node (238), then target's prev (243)
add_node_prev_locks(rs, target, new_node) ==
    IF rs.nodes[target].prev = None THEN <<target>>
    ELSE <<target, new_node, rs.nodes[target].prev>>

\* the linking step of add_node (lines 62-77) for the node new_node
add_node_locks(rs, hash, new_node) ==
    LET found == ring_lookup(rs, hash)
    IN  IF found # None THEN add_node_prev_locks(rs, found, new_node)
        ELSE IF rs.head # None THEN add_node_prev_locks(rs, rs.head, new_node)
        ELSE <<new_node>>

\* the locks of one getter call on node_ref (none for a missing handle)
getter_lock(node_ref) == IF node_ref = None THEN <<>> ELSE <<node_ref>>

\* lines 100-111 of remove_node: get_head_value, get_next_value of head,
\* get_prev_node_ref and get_next_node_ref of the node, then prev and next
unlink_locks(m, node_ref) ==
    getter_lock(m.head)
        \o getter_lock(m.head) \o getter_lock(get_next_node_ref(m, m.head))
        \o getter_lock(node_ref)
        \o getter_lock(node_ref)
        \o getter_lock(get_prev_node_ref(m, node_ref))
        \o getter_lock(get_next_node_ref(m, node_ref))

\* resources(): the walk from head along next that stops before the node
\* whose value is head's; one pair <<value, keys>> for every node visited
RECURSIVE ResourcesFrom(_, _, _)
ResourcesFrom(rs, node_ref, fuel) ==
    IF node_ref = None \/ fuel = 0 THEN {}
    ELSE LET node == rs.nodes[node_ref]
             head == node.next
         IN  {<<node.value, node.resource>>} \cup
             (IF head = None \/ rs.nodes[head].value = get_head_value(rs) THEN {}
              ELSE ResourcesFrom(rs, head, fuel - 1))

resources(rs) == ResourcesFrom(rs, rs.head, Len(rs.nodes))

\* ---------------------------------------------------------------
\* The lock events of the ring operations: every try_lock() of the source
\* and the drop of its guard, in program order.  Scope(n, inner) is a
\* guard on node n that lives while the events of inner happen.
\* ---------------------------------------------------------------
Lock(n) == <<[ev |-> "try_lock", node |-> n]>>
Drop(n) == <<[ev |-> "drop", node |-> n]>>
Scope(n, inner) == Lock(n) \o inner \o Drop(n)

\* get_node_value, get_next_node_ref, get_prev_node_ref: the guard is a
\* temporary or a local of the getter, dropped when the getter returns
getter_trace(node_ref) == IF node_ref = None THEN << >> ELSE Scope(node_ref, << >>)

\* get_next_value: get_next_node_ref returns, then the next node is locked
get_next_value_trace(rs, node_ref) ==
    getter_trace(node_ref) \o getter_trace(get_next_node_ref(rs, node_ref))

\* the getters at the end of every iteration of the loop of lookup
RECURSIVE LookupLoop_trace(_, _, _)
LookupLoop_trace(rs, hash, current) ==
    LET current_value == get_node_value(rs, current)
        next_node_ref == get_next_node_ref(rs, current)
        next_node_value == get_node_value(rs, next_node_ref)
    IN  IF /\ distance(rs, current_value, hash) > distance(rs, next_node_value, hash)
           /\ current_value # hash
           /\ next_node_value # get_head_value(rs)
        THEN getter_trace(next_node_ref) \o getter_trace(next_node_ref)
                 \o getter_trace(get_next_node_ref(rs, next_node_ref))
                 \o LookupLoop_trace(rs, hash, next_node_ref)
        ELSE << >>

lookup_trace(rs, hash) ==
    getter_trace(rs.head) \o getter_trace(rs.head)
        \o getter_trace(get_next_node_ref(rs, rs.head))
        \o getter_trace(rs.head)
        \o LookupLoop_trace(rs, hash, rs.head)

\* move_resource: a panic of an assert! ends the events with the guard held
move_resource_trace(rs, dest, src) ==
    LET dest_node == ring_lookup(rs, dest)
        src_node == ring_lookup(rs, src)
    IN  lookup_trace(rs, dest) \o lookup_trace(rs, src) \o
        (IF dest_node = None \/ src_node = None THEN << >>
         ELSE IF src # rs.nodes[src_node].value THEN Lock(src_node)
         ELSE Scope(src_node, << >>) \o
              (IF dest # rs.nodes[dest_node].value THEN Lock(dest_node)
               ELSE Scope(dest_node, << >>)))

\* add_node_prev with one scope for the whole function
add_node_prev_trace_OneScope(rs, target, new_node) ==
    IF rs.nodes[target].prev = None THEN Lock(target)
    ELSE Scope(target, Scope(new_node, << >>) \o Scope(rs.nodes[target].prev, << >>))

\* add_node_prev: three blocks, one guard each
add_node_prev_trace(rs, target, new_node) ==
    IF rs.nodes[target].prev = None THEN Lock(target)
    ELSE Scope(target, << >>) \o Scope(new_node, << >>)
             \o Scope(rs.nodes[target].prev, << >>)

\* the linking step of add_node (hash_ring.rs:62-77)
add_node_link_trace(rs0, hash, new_node) ==
    LET found == ring_lookup(rs0, hash)
    IN  lookup_trace(rs0, hash) \o
        (IF found # None
         THEN add_node_prev_trace(rs0, found, new_node) \o
              (IF rs0.nodes[found].prev = None THEN << >> ELSE getter_trace(found))
         ELSE IF rs0.head # None
         THEN add_node_prev_trace(rs0, rs0.head, new_node) \o
              (IF rs0.nodes[rs0.head].prev = None THEN << >> ELSE getter_trace(rs0.head))
         ELSE Scope(new_node, << >>))

\* the ring and the value add_node hands to move_resource
add_node_linked(rs, hash) ==
    LET new_node == Len(rs.nodes) + 1
        rs0 == [rs EXCEPT !.nodes = Append(@, [value |-> hash, resource |-> {},
                                               prev |-> None, next |-> None])]
        found == ring_lookup(rs0, hash)
    IN  [rs0 |-> rs0,
         linked |->
             IF found # None THEN add_node_prev(rs0, found, new_node)
             ELSE IF rs0.head # None THEN add_node_prev(rs0, rs0.head, new_node)
             ELSE Ok([rs0 EXCEPT !.head = new_node,
                                 !.nodes[new_node].next = new_node,
                                 !.nodes[new_node].prev = new_node]),
         next_node_value |->
             IF found # None THEN get_node_value(rs0, found)
             ELSE IF rs0.head # None THEN get_node_value(rs0, rs0.head)
             ELSE hash]

add_node_trace(rs, hash) ==
    IF ~legal_range(rs, hash) THEN << >>
    ELSE LET st == add_node_linked(rs, hash)
         IN  add_node_link_trace(st.rs0, hash, Len(rs.nodes) + 1) \o
             (IF st.linked.panic THEN << >>
              ELSE move_resource_trace(st.linked.rs, hash, st.next_node_value) \o
                   (IF move_resource(st.linked.rs, hash, st.next_node_value, FALSE).panic
                    THEN << >>
                    ELSE getter_trace(st.linked.rs.head)))

\* lines 100-111 of remove_node
unlink_trace(m, node_ref) ==
    getter_trace(m.head)
        \o get_next_value_trace(m, m.head)
        \o getter_trace(node_ref)
        \o getter_trace(node_ref)
        \o getter_trace(get_prev_node_ref(m, node_ref))
        \o getter_trace(get_next_node_ref(m, node_ref))

remove_node_trace(rs, hash) ==
    LET node_ref == ring_lookup(rs, hash)
        node_value == get_node_value(rs, node_ref)
        next_value == get_next_value(rs, node_ref)
    IN  lookup_trace(rs, hash) \o getter_trace(node_ref)
            \o get_next_value_trace(rs, node_ref) \o
        (IF node_value # hash THEN << >>
         ELSE move_resource_trace(rs, next_value, node_value) \o
              (LET moved == move_resource(rs, next_value, node_value, TRUE)
               IN  IF moved.panic THEN << >> ELSE unlink_trace(moved.rs, node_ref)))

add_resource_trace(rs, hash) ==
    IF ~legal_range(rs, hash) THEN << >>
    ELSE lookup_trace(rs, hash) \o getter_trace(ring_lookup(rs, hash))

\* the closure of nodes(): it locks head for every element of nodes that
\* find() looks at, up to the first one equal to head's value
RECURSIVE FindTrace(_, _, _)
FindTrace(rs, head, nodes) ==
    IF nodes = << >> \/ head = None THEN << >>
    ELSE getter_trace(head) \o
         (IF Head(nodes) = rs.nodes[head].value THEN << >>
          ELSE FindTrace(rs, head, Tail(nodes)))

\* nodes(): the values collected so far are nodes
RECURSIVE NodesTrace(_, _, _, _)
NodesTrace(rs, node_ref, nodes, fuel) ==
    IF node_ref = None \/ fuel = 0 THEN << >>
    ELSE LET head == rs.nodes[node_ref].next
             seen == Append(nodes, rs.nodes[node_ref].value)
         IN  Scope(node_ref, << >>) \o FindTrace(rs, head, seen) \o
             (IF head # None /\ \E i \in 1 .. Len(seen) : seen[i] = rs.nodes[head].value
              THEN << >>
              ELSE NodesTrace(rs, head, seen, fuel - 1))

nodes_trace(rs) == NodesTrace(rs, rs.head, << >>, Len(rs.nodes) + 1)

\* resources(): head_value, then the walk along next
RECURSIVE ResourcesTrace(_, _, _)
ResourcesTrace(rs, node_ref, fuel) ==
    IF node_ref = None \/ fuel = 0 THEN << >>
    ELSE LET head == rs.nodes[node_ref].next
         IN  Scope(node_ref, << >>) \o getter_trace(head) \o
             (IF head = None \/ rs.nodes[head].value = get_head_value(rs) THEN << >>
              ELSE ResourcesTrace(rs, head, fuel - 1))

resources_trace(rs) == getter_trace(rs.head) \o ResourcesTrace(rs, rs.head, Len(rs.nodes) + 1)

(***************************************************************************)
(* The ring as a state machine: new(RingK), then add_node, remove_node and *)
(* add_resource calls.  A panic ends the behaviour of the ring.            *)
(***************************************************************************)
MemberValues == {ring.nodes[n].value : n \in members}

InitRing ==
    /\ ring = ring_new(RingK)
    /\ ringPanicked = FALSE
    /\ members = {}
    /\ resAdded = {}
    /\ emptied = FALSE
    /\ resCalls = 0
    /\ rop = "new"

AddNode(hash) ==
    /\ ~ringPanicked
    /\ Len(ring.nodes) < MaxNodes
    /\ hash \notin MemberValues          \* node positions are pairwise distinct
    /\ LET res == add_node(ring, hash)
       IN  /\ ring' = res.rs
           /\ ringPanicked' = res.panic
           /\ members' = IF res.panic THEN members ELSE members \cup {Len(ring.nodes) + 1}
    /\ rop' = "add_node"
    /\ UNCHANGED <<resAdded, emptied, resCalls>>

\* add_node with any position, that of an existing node included
AddNodeAny(hash) ==
    /\ ~ringPanicked
    /\ Len(ring.nodes) < MaxNodes
    /\ \E res \in {add_node(ring, hash)} :
           /\ ring' = res.rs
           /\ ringPanicked' = res.panic
           /\ members' = IF res.panic THEN members ELSE members \cup {Len(ring.nodes) + 1}
    /\ rop' = "add_node"
    /\ UNCHANGED <<resAdded, emptied, resCalls>>

RemoveNode(hash) ==
    /\ ~ringPanicked
    /\ LET res == remove_node(ring, hash)
       IN  /\ ring' = res.rs
           /\ ringPanicked' = res.panic
           /\ members' = IF res.found /\ ~res.panic THEN members \ {res.node} ELSE members
           /\ emptied' = (emptied \/ (res.found /\ members # {} /\ members \ {res.node} = {}
                                      /\ resAdded # {}))
    /\ rop' = "remove_node"
    /\ UNCHANGED <<resAdded, resCalls>>

AddResource(hash) ==
    /\ ~ringPanicked
    /\ resCalls < MaxResources
    /\ LET res == add_resource(ring, hash)
       IN  /\ ring' = res.rs
           /\ ringPanicked' = res.panic
           /\ resAdded' = IF res.panic THEN resAdded ELSE resAdded \cup {hash}
    /\ resCalls' = resCalls + 1
    /\ rop' = "add_resource"
    /\ UNCHANGED <<members, emptied>>

NextRing ==
    \/ \E hash \in Positions : AddNode(hash)
    \/ \E hash \in Positions : RemoveNode(hash)
    \/ \E hash \in Positions : AddResource(hash)

\* add_node and remove_node alone, with positions that may repeat
NextRingAny ==
    \/ \E hash \in Positions : AddNodeAny(hash)
    \/ \E hash \in Positions : RemoveNode(hash)

(***************************************************************************)
(* The ring of the tests add_resource and add_resource_with_resource_move: *)
(* new(5), the nodes 12 and 18, nine resources (in any order), the nodes   *)
(* 5, 27 and 30, then remove_node(12).                                     *)
(***************************************************************************)
TestK == 5
TestNodes == <<12, 18, 5, 27, 30>>
TestFirstNodes == 2
TestResources == {24, 21, 16, 23, 2, 29, 28, 7, 10}
TestRemoved == 12

InitRingTest ==
    /\ ring = ring_new(TestK)
    /\ ringPanicked = FALSE
    /\ members = {}
    /\ resAdded = {}
    /\ emptied = FALSE
    /\ resCalls = 0
    /\ rop = "new"

TestAddNode ==
    /\ ~ringPanicked
    /\ Len(ring.nodes) < Len(TestNodes)
    /\ Len(ring.nodes) >= TestFirstNodes => resAdded = TestResources
    /\ \E res \in {add_node(ring, TestNodes[Len(ring.nodes) + 1])} :
           /\ ring' = res.rs
           /\ ringPanicked' = res.panic
           /\ members' = IF res.panic THEN members ELSE members \cup {Len(ring.nodes) + 1}
    /\ rop' = "add_node"
    /\ UNCHANGED <<resAdded, emptied, resCalls>>

TestAddResource(hash) ==
    /\ ~ringPanicked
    /\ Len(ring.nodes) = TestFirstNodes
    /\ hash \notin resAdded
    /\ \E res \in {add_resource(ring, hash)} :
           /\ ring' = res.rs
           /\ ringPanicked' = res.panic
           /\ resAdded' = IF res.panic THEN resAdded ELSE resAdded \cup {hash}
    /\ resCalls' = resCalls + 1
    /\ rop' = "add_resource"
    /\ UNCHANGED <<members, emptied>>

TestRemoveNode ==
    /\ ~ringPanicked
    /\ Len(ring.nodes) = Len(TestNodes)
    /\ TestRemoved \in MemberValues
    /\ \E res \in {remove_node(ring, TestRemoved)} :
           /\ ring' = res.rs
           /\ ringPanicked' = res.panic
           /\ members' = IF res.found /\ ~res.panic THEN members \ {res.node} ELSE members
    /\ rop' = "remove_node"
    /\ UNCHANGED <<resAdded, emptied, resCalls>>

NextRingTest ==
    \/ TestAddNode
    \/ \E hash \in TestResources : TestAddResource(hash)
    \/ TestRemoveNode

(***************************************************************************)
(* CountMinSketch (count_min_sketch.rs)                                    *)
(*                                                                         *)
(* eps and delta are fractions <<numerator, denominator>>.  A counter is a *)
(* u32 in the source; the model keeps CounterBits bits of it.  `+=` on a   *)
(* counter panics on overflow in a build with overflow checks and wraps in *)
(* a build without them.  murmurhash3 is not computed: seeded is any       *)
(* function of item and seed, fixed when the behaviour starts.             *)
(***************************************************************************)
CounterBits == 2   \* width of a counter
MaxUpdates == 2    \* number of update calls in one behaviour
HashRange == 2     \* mmh3 returns 0 .. HashRange - 1
MaxDepth == 2      \* largest depth the fractions of DeltaChoices derive

E_NUM == 2718      \* std::f32::consts::E as the fraction E_NUM / E_DEN
E_DEN == 1000

Items == {0, 1}
Seeds == 0 .. (MaxDepth - 1)
CounterMax == Pow2(CounterBits) - 1          \* u32::MAX
Freqs == {0, 1, CounterMax}
EpsChoices == {<<2, 1>>, <<3, 1>>}
DeltaChoices == {<<1, 1>>, <<1, 2>>, <<1, 5>>}

RECURSIVE IntPow(_, _)
IntPow(b, n) == IF n = 0 THEN 1 ELSE b * IntPow(b, n - 1)

\* (E / eps).ceil()
WidthOf(eps) == (E_NUM * eps[2] + E_DEN * eps[1] - 1) \div (E_DEN * eps[1])

\* (1.0 / delta).ln().ceil(): the least d with e^d >= 1 / delta
RECURSIVE CeilLn(_, _)
CeilLn(delta, d) ==
    IF d >= MaxDepth \/ delta[1] * IntPow(E_NUM, d) >= delta[2] * IntPow(E_DEN, d)
    THEN d
    ELSE CeilLn(delta, d + 1)

DepthOf(delta) == CeilLn(delta, 0)

cms_new(eps, delta) ==
    LET width == WidthOf(eps)
        depth == DepthOf(delta)
    IN  [width |-> width, depth |-> depth,
         sketch |-> [i \in 0 .. (depth - 1) |-> [j \in 0 .. (width - 1) |-> 0]]]

mmh3(hashes, item, seed) == hashes[<<item, seed>>]

\* rows i .. depth - 1 of update; checks is the build's overflow checking
RECURSIVE UpdateRows(_, _, _, _, _, _)
UpdateRows(c, hashes, checks, item, freq, i) ==
    IF i >= c.depth THEN [c |-> c, panic |-> FALSE]
    ELSE LET index == mmh3(hashes, item, i) % c.width
             total == c.sketch[i][index] + freq
         IN  IF total > CounterMax /\ checks THEN [c |-> c, panic |-> TRUE]
             ELSE UpdateRows([c EXCEPT !.sketch[i][index] = total % Pow2(CounterBits)],
                             hashes, checks, item, freq, i + 1)

update(c, hashes, checks, item, freq) == UpdateRows(c, hashes, checks, item, freq, 0)

RECURSIVE EstimateRows(_, _, _, _, _)
EstimateRows(c, hashes, item, i, min) ==
    IF i >= c.depth THEN min
    ELSE LET index == mmh3(hashes, item, i) % c.width
         IN  EstimateRows(c, hashes, item, i + 1,
                          IF c.sketch[i][index] < min THEN c.sketch[i][index] ELSE min)

estimate(c, hashes, item) == EstimateRows(c, hashes, item, 0, CounterMax)

\* the sketch of the behaviours that are not about it
IdleCMS ==
    /\ cms = cms_new(<<3, 1>>, <<1, 2>>)
    /\ seeded = [p \in Items \X Seeds |-> 0]
    /\ overflowChecks = TRUE
    /\ cmsPanicked = FALSE
    /\ updated = [x \in Items |-> 0]
    /\ updates = 0

InitCMS ==
    /\ \E eps \in EpsChoices : \E delta \in DeltaChoices : cms = cms_new(eps, delta)
    /\ seeded \in [Items \X Seeds -> 0 .. (HashRange - 1)]
    /\ overflowChecks \in BOOLEAN
    /\ cmsPanicked = FALSE
    /\ updated = [x \in Items |-> 0]
    /\ updates = 0

Update(item, freq) ==
    /\ ~cmsPanicked
    /\ updates < MaxUpdates
    /\ \E res \in {update(cms, seeded, overflowChecks, item, freq)} :
           /\ cms' = res.c
           /\ cmsPanicked' = res.panic
    /\ updated' = [updated EXCEPT ![item] = @ + freq]
    /\ updates' = updates + 1
    /\ UNCHANGED <<seeded, overflowChecks>>

NextCMS == \E item \in Items : \E freq \in Freqs : Update(item, freq)

\* ---------------------------------------------------------------
\* The Bloom filter.  f is one of the powers 2^-e, written as the
\* exponent e, so that f.ln() is -e * ln 2; ln 2 is LN2_NUM / LN2_DEN.
\* ---------------------------------------------------------------
MaxN == 2                \* n ranges over 1 .. MaxN
MaxFExp == 3             \* f ranges over 2^-1 .. 2^-MaxFExp
BloomHashRange == 3      \* mmh3 returns 0 .. BloomHashRange - 1
MaxBloomInserts == 2     \* insert calls in one behaviour
LN2_NUM == 6931
LN2_DEN == 10000

\* -f.ln(), in units of 1 / LN2_DEN
NegLn(fexp) == fexp * LN2_NUM

\* (-f.ln() * (n as f32) / x.ln().powi(2)) as u32
calc_m(n, fexp) == (NegLn(fexp) * n * LN2_DEN) \div (LN2_NUM * LN2_NUM)

\* ((m as f32) * x.ln() / (n as f32)) as u32
calc_k(m, n) == (m * LN2_NUM) \div (n * LN2_DEN)

bloom_new(n, fexp) ==
    LET m == calc_m(n, fexp)
        k == calc_k(m, n)
    IN  [n |-> n, m |-> m, k |-> k, bit_array |-> [i \in 0 .. (m - 1) |-> FALSE]]

\* rounds i .. k - 1 of insert
RECURSIVE InsertBits(_, _, _, _)
InsertBits(b, hashes, item, i) ==
    IF i >= b.k THEN b
    ELSE LET index == mmh3(hashes, item, i) % b.m
         IN  InsertBits([b EXCEPT !.bit_array[index] = TRUE], hashes, item, i + 1)

\* an insert that empties the bit array before it sets its own bits
bloom_insert_ClearsFirst(b, hashes, item) ==
    InsertBits([b EXCEPT !.bit_array = [i \in 0 .. (b.m - 1) |-> FALSE]], hashes, item, 0)

bloom_insert(b, hashes, item) == InsertBits(b, hashes, item, 0)

\* rounds i .. k - 1 of lookup
RECURSIVE LookupBits(_, _, _, _)
LookupBits(b, hashes, item, i) ==
    IF i >= b.k THEN TRUE
    ELSE LET index == mmh3(hashes, item, i) % b.m
         IN  IF b.bit_array[index] = FALSE THEN FALSE
             ELSE LookupBits(b, hashes, item, i + 1)

bloom_lookup(b, hashes, item) == LookupBits(b, hashes, item, 0)

\* the Bloom filter of the behaviours that are not about it
IdleBloom ==
    /\ bloom = bloom_new(1, 1)
    /\ bloomHashes = << >>
    /\ bloomInserted = {}
    /\ bloomCalls = 0

InitBloom ==
    /\ \E n \in 1 .. MaxN : \E fexp \in 1 .. MaxFExp : bloom = bloom_new(n, fexp)
    /\ bloomHashes \in [Items \X (0 .. (bloom.k - 1)) -> 0 .. (BloomHashRange - 1)]
    /\ bloomInserted = {}
    /\ bloomCalls = 0

BloomInsert(item) ==
    /\ bloomCalls < MaxBloomInserts
    /\ bloom' = bloom_insert(bloom, bloomHashes, item)
    /\ bloomInserted' = bloomInserted \cup {item}
    /\ bloomCalls' = bloomCalls + 1
    /\ UNCHANGED bloomHashes

NextBloom == \E item \in Items : BloomInsert(item)

\* ---------------------------------------------------------------
\* The ring on a BTreeMap.  A node is its name; the hasher is the
\* sequence of names written into it since it was created, and
\* finish() is a function of that sequence, given as the table hashes.
\* ---------------------------------------------------------------
MaxChNames == 2          \* names 1 .. MaxChNames
ChKeyRange == 3          \* finish() returns 0 .. ChKeyRange - 1
MaxChCalls == 3          \* calls in one behaviour
MaxBatch == 2            \* longest vector given to add_nodes / remove_nodes
ChNames == 1 .. MaxChNames
ChKeys == 0 .. (ChKeyRange - 1)
Batches == UNION {[1 .. n -> ChNames] : n \in 1 .. MaxBatch}

ch_new == [hasher |-> << >>, nodes |-> << >>]

\* hasher.write(&data); hasher.finish()
_get_key(hasher, hashes, data) ==
    [hasher |-> Append(hasher, data), key |-> hashes[Append(hasher, data)]]

\* BTreeMap::insert and BTreeMap::remove
MapInsert(nodes, id, node) ==
    [k \in (DOMAIN nodes) \cup {id} |-> IF k = id THEN node ELSE nodes[k]]
MapRemove(nodes, id) == [k \in (DOMAIN nodes) \ {id} |-> nodes[k]]

ch_add_node(rs, hashes, node) ==
    LET got == _get_key(rs.hasher, hashes, node)
    IN  [hasher |-> got.hasher, nodes |-> MapInsert(rs.nodes, got.key, node)]

ch_remove_node(rs, hashes, node) ==
    LET got == _get_key(rs.hasher, hashes, node)
    IN  [hasher |-> got.hasher, nodes |-> MapRemove(rs.nodes, got.key)]

RECURSIVE add_nodes(_, _, _)
add_nodes(rs, hashes, nodes) ==
    IF nodes = << >> THEN rs
    ELSE add_nodes(ch_add_node(rs, hashes, Head(nodes)), hashes, Tail(nodes))

RECURSIVE remove_nodes(_, _, _)
remove_nodes(rs, hashes, nodes) ==
    IF nodes = << >> THEN rs
    ELSE remove_nodes(ch_remove_node(rs, hashes, Head(nodes)), hashes, Tail(nodes))

\* the least key of a non-empty set of keys
FirstKey(keys) == CHOOSE k \in keys : \A j \in keys : k <= j

ch_lookup(rs, hashes, id) ==
    IF DOMAIN rs.nodes = {} THEN [rs |-> rs, found |-> None]
    ELSE LET got == _get_key(rs.hasher, hashes, id)
             from == {k \in DOMAIN rs.nodes : k >= got.key}
             rs1 == [rs EXCEPT !.hasher = got.hasher]
         IN  IF from # {} THEN [rs |-> rs1, found |-> rs.nodes[FirstKey(from)]]
             ELSE [rs |-> rs1, found |-> rs.nodes[FirstKey(DOMAIN rs.nodes)]]

\* the streams the hasher holds while it takes the names of a vector
RECURSIVE Streams(_, _)
Streams(hasher, names) ==
    IF names = << >> THEN {}
    ELSE {Append(hasher, Head(names))} \cup Streams(Append(hasher, Head(names)), Tail(names))

HashTables(hasher, names) == [Streams(hasher, names) -> ChKeys]

\* the ring of the behaviours that are not about it
IdleCh ==
    /\ ch = ch_new
    /\ chOp = [kind |-> "new", names |-> << >>, before |-> << >>, found |-> None]
    /\ chCalls = 0

ChAddNodes(nodes) ==
    /\ chCalls < MaxChCalls
    /\ \E hashes \in HashTables(ch.hasher, nodes) : ch' = add_nodes(ch, hashes, nodes)
    /\ chOp' = [kind |-> "add_nodes", names |-> nodes, before |-> ch.nodes, found |-> None]
    /\ chCalls' = chCalls + 1

ChRemoveNodes(nodes) ==
    /\ chCalls < MaxChCalls
    /\ \E hashes \in HashTables(ch.hasher, nodes) : ch' = remove_nodes(ch, hashes, nodes)
    /\ chOp' = [kind |-> "remove_nodes", names |-> nodes, before |-> ch.nodes, found |-> None]
    /\ chCalls' = chCalls + 1

ChLookup(id) ==
    /\ chCalls < MaxChCalls
    /\ \E hashes \in HashTables(ch.hasher, <<id>>) :
           \E res \in {ch_lookup(ch, hashes, id)} :
               /\ ch' = res.rs
               /\ chOp' = [kind |-> "lookup", names |-> <<id>>, before |-> ch.nodes,
                           found |-> res.found]
    /\ chCalls' = chCalls + 1

NextCh ==
    \/ \E nodes \in Batches : ChAddNodes(nodes)
    \/ \E nodes \in Batches : ChRemoveNodes(nodes)
    \/ \E id \in ChNames : ChLookup(id)

Init == InitQF /\ InitRing /\ IdleCMS /\ IdleBloom /\ IdleCh
\* the start of the test ring and of the sketch behaviours
InitTest == InitQF /\ InitRingTest /\ IdleCMS /\ IdleBloom /\ IdleCh
InitSketch == InitQF /\ InitRing /\ InitCMS /\ IdleBloom /\ IdleCh
InitFilter == InitQF /\ InitRing /\ IdleCMS /\ InitBloom /\ IdleCh

\* the filter alone
SpecQF == (Init /\ other = qf_new(1, R)) /\ [][NextQF /\ UNCHANGED <<ringVars, cmsVars, bloomVars, chVars>>]_vars
\* the filter with explicit resize and merge
SpecQFOps == Init /\ [][NextQFOps /\ UNCHANGED <<ringVars, cmsVars, bloomVars, chVars>>]_vars
\* the ring alone (the filter stays as created by new(1, R))
SpecRing == (Init /\ q0 = 1 /\ other = qf_new(1, R)) /\ [][NextRing /\ UNCHANGED <<qfVars, cmsVars, bloomVars, chVars>>]_vars
\* the ring under add_node and remove_node calls with any positions
SpecRingAny ==
    (Init /\ q0 = 1 /\ other = qf_new(1, R)) /\ [][NextRingAny /\ UNCHANGED <<qfVars, cmsVars, bloomVars, chVars>>]_vars
\* the ring of the tests on new(5)
SpecRingTest ==
    (InitTest /\ q0 = 1 /\ other = qf_new(1, R))
        /\ [][NextRingTest /\ UNCHANGED <<qfVars, cmsVars, bloomVars, chVars>>]_vars
\* the sketch alone, for every choice of eps, delta, hash values and build
SpecCMS ==
    (InitSketch /\ q0 = 1 /\ other = qf_new(1, R))
        /\ [][NextCMS /\ UNCHANGED <<qfVars, ringVars, bloomVars, chVars>>]_vars
\* the Bloom filter alone, for every choice of n, f and hash values
SpecBloom ==
    (InitFilter /\ q0 = 1 /\ other = qf_new(1, R))
        /\ [][NextBloom /\ UNCHANGED <<qfVars, ringVars, cmsVars, chVars>>]_vars
\* the ring on a BTreeMap alone, for every choice of hash values
SpecCh ==
    (Init /\ q0 = 1 /\ other = qf_new(1, R))
        /\ [][NextCh /\ UNCHANGED <<qfVars, ringVars, cmsVars, bloomVars>>]_vars

(***************************************************************************)
(* Vocabulary of the filter claims                                         *)
(***************************************************************************)
Slots == 0 .. (qf.size - 1)
NonEmpty(i) == ~is_empty(qf.filter[i])
Prev(i) == prev_index(qf, i)
Succ(i) == next_index(qf, i)
\* every key passed to insert has at most q0 + R bits
Narrow == \A k \in Keys : inserted[k] > 0 => k < Pow2(q0 + R)
\* how far slot i lies behind the home bucket of the remainder it stores
Offset(i) == (i + qf.size - qf.home[i]) % qf.size
\* slot i stores a remainder of its home bucket that is not the first one
LaterInRun(i) ==
    /\ Offset(i) > 0
    /\ NonEmpty(Prev(i))
    /\ qf.home[Prev(i)] = qf.home[i]
\* the slots of the k-th run of a cluster, read for the k-th occupied bucket
RunSlots(bucket) ==
    LET run_head == find_run_head(qf, bucket)
        slots == visit_run(qf, run_head)
    IN  IF run_head = Diverged THEN {Diverged}
        ELSE {slots[n] : n \in 1 .. Len(slots)}

\* C1: after any sequence of insert calls with keys of at most q+r bits
\* (automatic resizes included), lookup(k) is true for every inserted key k.
C1_InsertedKeyIsFound ==
    (~qfHung /\ Narrow) =>
        \A k \in Keys : inserted[k] > 0 => qf_lookup(qf, k) = "hit"

\* C4: after n insert calls on a new filter (duplicates counted, automatic
\* resizes included) the entries counter equals n.
C4_EntriesCountsInserts ==
    ~qfHung => qf.entries = calls

\* C6: a non-empty slot that stores the first remainder of its home bucket's
\* run has continued=false, one that stores a later remainder of that run has
\* continued=true.
C6_ContinuedMarksRunBody ==
    ~qfHung =>
        \A i \in Slots : NonEmpty(i) => (is_continued(qf.filter[i]) <=> LaterInRun(i))

\* C7: the runs of a cluster appear in the order of their home buckets: the
\* run read for an occupied bucket holds exactly the remainders written for
\* that bucket, and along a cluster the remainders of one bucket are
\* contiguous and follow those of every earlier bucket.
C7_RunsFollowBucketOrder ==
    ~qfHung =>
        /\ \A b \in Slots : is_occupied(qf.filter[b]) =>
               RunSlots(b) = {i \in Slots : NonEmpty(i) /\ qf.home[i] = b}
        /\ \A i \in Slots : (NonEmpty(i) /\ NonEmpty(Succ(i)) /\ Offset(Succ(i)) > 0) =>
               /\ Offset(Succ(i)) <= Offset(i) + 1
               /\ (Offset(Succ(i)) = Offset(i) + 1) <=> (qf.home[Succ(i)] = qf.home[i])

\* C8: within every run (a slot with continued=false and the slots with
\* continued=true that follow it, modulo size) the stored remainders are
\* non-decreasing in slot order.
C8_RunIsSorted ==
    ~qfHung =>
        \A i \in Slots : (NonEmpty(i) /\ is_continued(qf.filter[i])) =>
            /\ NonEmpty(Prev(i))
            /\ remainder(qf.filter[Prev(i)]) <= remainder(qf.filter[i])

\* a run of at least three remainders that grows along the run
C8_Witness ==
    /\ ~qfHung
    /\ \E i \in Slots :
          /\ is_continued(qf.filter[i])
          /\ is_continued(qf.filter[Succ(i)])
          /\ Succ(i) # Prev(i)
          /\ remainder(qf.filter[Prev(i)]) < remainder(qf.filter[Succ(i)])

\* C9: with keys of at most q+r bits (automatic resizes included) the
\* occupied bit of slot i is set iff some inserted key has quotient i; an
\* insert that does not resize changes the occupied bit of no slot but the
\* home bucket of its key, however many remainders it shifts.
C9_OccupiedIffQuotientInserted ==
    /\ []((~qfHung /\ Narrow) =>
            \A i \in Slots :
                is_occupied(qf.filter[i]) <=>
                    \E k \in Keys : inserted[k] > 0 /\ split(qf, k).quotient = i)
    /\ [][(~qfHung' /\ qf'.size = qf.size) =>
            \A i \in Slots :
                is_occupied(qf'.filter[i]) <=>
                    \/ is_occupied(qf.filter[i])
                    \/ \E k \in Keys : inserted'[k] # inserted[k] /\ split(qf, k).quotient = i]_vars

\* after a resize: a slot whose occupied bit speaks for another remainder than
\* the one it stores, next to a shifted remainder in a slot that is no home
C9_Witness ==
    /\ ~qfHung /\ Narrow
    /\ qf.q > q0
    /\ \E i \in Slots : NonEmpty(i) /\ is_occupied(qf.filter[i]) /\ qf.home[i] # i
    /\ \E j \in Slots : NonEmpty(j) /\ ~is_occupied(qf.filter[j])

C11_ResizeKeepsEntries ==
    [][(op' = "resize" /\ merges = 0 /\ ~qfHung') =>
           /\ qf'.size = 2 * qf.size
           /\ qf'.q = qf.q + 1
           /\ qf'.r = qf.r
           /\ qf'.entries = qf.entries]_vars


\* C12: every key passed to insert before a resize, the explicit resize()
\* or the automatic one inside insert, is still found by lookup after it.
C12_ResizeKeepsMembers ==
    [][((op' = "resize" \/ (op' = "insert" /\ qf'.q > qf.q)) /\ merges = 0 /\ ~qfHung') =>
           \A k \in Keys : inserted[k] > 0 => qf_lookup(qf', k) = "hit"]_vars

\* C13: for A and B of equal r reached by insert calls, every key inserted
\* into A or into B is found by lookup in the filter A.merge(B) returns.
C13_MergeKeepsMembers ==
    [][(op' = "merge" /\ resizes = 0 /\ ~qfHung' /\ ~qfPanicked') =>
           \A k \in Keys : (inserted[k] > 0 \/ otherIns[k] > 0) =>
               qf_lookup(qf', k) = "hit"]_vars

\* C14: for A and B of equal r reached by insert calls, M = A.merge(B) has
\* M.entries = A.entries + B.entries, and M.size is at least the size of A,
\* the size of B and M.entries.
C14_MergeAddsEntries ==
    [][(op' = "merge" /\ resizes = 0 /\ ~qfHung' /\ ~qfPanicked') =>
           /\ qf'.entries = qf.entries + other.entries
           /\ qf'.size >= qf.size
           /\ qf'.size >= other.size
           /\ qf'.size >= qf'.entries]_vars

\* C15: after insert calls without resize, lookup(k) is true only if some
\* inserted key has the quotient and the remainder of k; on a newly created
\* filter lookup is false for every key.
C15_HitHasInsertedFingerprint ==
    (~qfHung /\ qf.q = q0) =>
        \A k \in Keys :
            qf_lookup(qf, k) = "hit" =>
                \E j \in Keys : inserted[j] > 0 /\ split(qf, j) = split(qf, k)

\* one insert call took the filter from f to g (hung: it did not return)
InsertStep(f, g, hung) ==
    /\ ~hung => ((f.entries = f.size) <=> (g.q # f.q))
    /\ f.entries < f.size =>
           /\ ~hung
           /\ g.q = f.q /\ g.size = f.size
           /\ \A i \in 0 .. (f.size - 1) : ~is_empty(f.filter[i]) => ~is_empty(g.filter[i])
           /\ Cardinality({i \in 0 .. (f.size - 1) :
                               is_empty(f.filter[i]) /\ ~is_empty(g.filter[i])}) = 1

\* C16: insert resizes exactly when entries == size before the insertion; an
\* insert with entries < size never changes q or size, never fails, and
\* fills exactly one previously empty slot.
C16_InsertGrowsOnlyWhenFull ==
    [][/\ op' = "insert" => InsertStep(qf, qf', qfHung')
       /\ op' = "insert_other" => InsertStep(other, other', qfHung')]_vars

\* an insert without resize that shifted a remainder, after an earlier insert
\* that resized
C16_Witness ==
    /\ op = "insert" /\ ~qfHung
    /\ qf.q > q0 /\ resizes = 0 /\ merges = 0
    /\ qf.entries > qf.size \div 2 + 1
    /\ \E i \in 0 .. (qf.size - 1) : ~is_empty(qf.filter[i]) /\ qf.home[i] # i

\* C28: merge of two filters whose remainder widths r differ fails before any
\* result filter is built, and merge (failing or succeeding) never changes
\* the slot table, q, r or entries of either input.  (merge borrows self and
\* other immutably and returns the result by value; the step stores the
\* result over qf only when merge returned one.)
C28_MergeChecksWidthFirst ==
    [][op' = "merge" =>
           /\ other' = other
           /\ qf.r # other.r =>
                  /\ merge(qf, other).panic /\ ~merge(qf, other).done
                  /\ qfPanicked' /\ ~qfHung'
                  /\ qf' = qf]_vars

\* merge has failed on two non-empty filters of different remainder widths
C28_Witness ==
    /\ op = "merge" /\ qfPanicked
    /\ qf.r # other.r
    /\ qf.entries > 0 /\ other.entries > 0

(***************************************************************************)
(* Vocabulary of the ring claims                                           *)
(***************************************************************************)
Node(n) == ring.nodes[n]
InRange == RingMin .. RingMax
MinOf(S) == CHOOSE x \in S : \A y \in S : x <= y

\* the node reached from head by n steps along next (None stays None)
RECURSIVE Step(_, _)
Step(from, n) ==
    IF n = 0 \/ from = None THEN from
    ELSE Step(Node(from).next, n - 1)

\* the member that owns position h: the member with the smallest value >= h,
\* or the minimum member when no member value is >= h
Owner(h) ==
    LET above == {n \in members : Node(n).value >= h}
        pool == IF above = {} THEN members ELSE above
    IN  CHOOSE n \in pool : \A m \in pool : Node(n).value <= Node(m).value

\* the members form an ascending cycle of distinct in-range positions along
\* next, head is its minimum, prev is the inverse of next
AscendingCycle ==
    /\ (members = {}) <=> (ring.head = None)
    /\ \A n \in members : Node(n).value \in InRange
    /\ \A n, m \in members : n # m => Node(n).value # Node(m).value
    /\ members # {} =>
          /\ ring.head \in members
          /\ Node(ring.head).value = MinOf(MemberValues)
          /\ \A i \in 0 .. Cardinality(members) - 1 : Step(ring.head, i) \in members
          /\ \A i \in 1 .. Cardinality(members) - 1 :
                 Node(Step(ring.head, i - 1)).value < Node(Step(ring.head, i)).value
          /\ Step(ring.head, Cardinality(members)) = ring.head
          /\ \A n \in members : /\ Node(n).next \in members
                                /\ Node(n).prev \in members
                                /\ Node(Node(n).next).prev = n
                                /\ Node(Node(n).prev).next = n

\* C2: after add_node and remove_node calls with in-range, pairwise distinct
\* positions, head is the node with the smallest value, next from head visits
\* the node values in strictly ascending order and is back at head after
\* |nodes| steps, prev is the inverse of next, and no removed node is
\* reachable from head.
C2_RingIsAscendingCycle ==
    (~ringPanicked) => AscendingCycle

\* C3: as long as the ring was not emptied after a resource was added (and
\* node positions were in range and pairwise distinct), every added resource
\* is stored on exactly one node, the member with the smallest position >= r,
\* wrapping to the minimum member.
C3_ResourceOnOwner ==
    (~ringPanicked /\ ~emptied) =>
        \A r \in resAdded :
            /\ members # {}
            /\ \A n \in 1 .. Len(ring.nodes) :
                   r \in Node(n).resource <=> n = Owner(r)

\* C5: on a ring whose nodes form an ascending next-cycle of distinct
\* in-range positions with head at the minimum, lookup(h) returns for every
\* in-range h the node that owns h (the node at h if there is one, else the
\* node with the smallest value >= h, wrapping to head); on an empty ring it
\* returns None.
C5_LookupReturnsOwner ==
    (~ringPanicked /\ AscendingCycle) =>
        \A h \in InRange :
            ring_lookup(ring, h) = IF members = {} THEN None ELSE Owner(h)

\* a ring of two nodes with a position below head, a position above the
\* maximum node and the nodes' own positions to look up
C5_Witness ==
    /\ ~ringPanicked /\ AscendingCycle
    /\ Cardinality(members) >= 2
    /\ Node(ring.head).value > RingMin
    /\ \A n \in members : Node(n).value < RingMax

\* the resources add_node(h) takes from the node s
Claimed(s, h) ==
    {r \in Node(s).resource : distance(ring, r, h) < distance(ring, r, Node(s).value)}

\* C17: add_node(h) on a non-empty ring that satisfies the ring invariants,
\* with h in range and not yet a node and s the successor of h, stores on the
\* new node every resource r of s with d(r, h) < d(r, s), leaves every other
\* resource of s on s, and leaves the resources of all other nodes unchanged.
C17_AddNodeTakesNearerResources ==
    [][(/\ rop' = "add_node"
        /\ Len(ring'.nodes) = Len(ring.nodes) + 1
        /\ ~ringPanicked'
        /\ members # {} /\ AscendingCycle) =>
           LET new_node == Len(ring'.nodes)
               h == ring'.nodes[new_node].value
               s == Owner(h)
           IN  /\ ring'.nodes[new_node].resource = Claimed(s, h)
               /\ ring'.nodes[s].resource = Node(s).resource \ Claimed(s, h)
               /\ \A m \in 1 .. Len(ring.nodes) :
                      m # s => ring'.nodes[m].resource = Node(m).resource]_vars

\* add_node has split the resources of a node: some moved, some stayed
C17_Witness ==
    /\ rop = "add_node"
    /\ ~ringPanicked /\ AscendingCycle
    /\ \E n \in members :
           /\ n = Len(ring.nodes)
           /\ Node(n).resource # {}
           /\ Node(Node(n).next).resource # {}
           /\ Node(n).next # n

\* C18: remove_node(h) for an existing node h of a ring with at least two
\* nodes returns with h removed, every resource that was stored on h is
\* stored on h's former successor, and no resource of any other node changes
\* owner.
C18_RemoveNodeHandsOver ==
    /\ [](~ringPanicked /\ Cardinality(members) >= 2 =>
              \A n \in members :
                  LET res == remove_node(ring, Node(n).value)
                  IN  ~res.panic /\ res.found /\ res.node = n)
    /\ [][(/\ rop' = "remove_node"
           /\ ~ringPanicked'
           /\ Cardinality(members) >= 2
           /\ members' # members) =>
              LET h == CHOOSE n \in members : n \notin members'
                  s == Node(h).next
              IN  /\ s # h
                  /\ ring'.nodes[s].resource = Node(s).resource \cup Node(h).resource
                  /\ \A m \in 1 .. Len(ring.nodes) :
                         (m # s /\ m # h) => ring'.nodes[m].resource = Node(m).resource]_vars

\* the node reached in rs from the node from by n steps along next
RECURSIVE StepIn(_, _, _)
StepIn(rs, from, n) ==
    IF n = 0 \/ from = None THEN from
    ELSE StepIn(rs, rs.nodes[from].next, n - 1)

\* C19: remove_node(h) with h the head of a ring of at least two nodes makes
\* head the former successor of h; removing the only node leaves head empty;
\* in both cases the removed node is no longer returned by lookup and is not
\* reachable from head.
C19_RemoveHeadMovesHead ==
    [][(/\ rop' = "remove_node"
        /\ ~ringPanicked'
        /\ AscendingCycle
        /\ members' # members
        /\ ring.head \notin members') =>
           LET h == ring.head
           IN  /\ ring'.head = IF Cardinality(members) >= 2 THEN Node(h).next ELSE None
               /\ \A x \in InRange : ring_lookup(ring', x) # h
               /\ \A i \in 0 .. Len(ring.nodes) : StepIn(ring', ring'.head, i) # h]_vars

\* C20: in every ring state reached by add_node and remove_node calls, where
\* add_node may be given the position of an existing node, the positions of
\* the nodes on the ring are pairwise distinct and lie in [0, 2^k - 1].
C20_PositionsDistinctInRange ==
    ~ringPanicked =>
        /\ \A n \in members : Node(n).value \in InRange
        /\ \A n, m \in members : n # m => Node(n).value # Node(m).value

\* the rings a and b have the same head, the same nodes, and the same value,
\* links and (outside the set except) resources on every node
SameRing(a, b, except) ==
    /\ a.head = b.head
    /\ Len(a.nodes) = Len(b.nodes)
    /\ \A i \in 1 .. Len(a.nodes) :
           /\ a.nodes[i].value = b.nodes[i].value
           /\ a.nodes[i].prev = b.nodes[i].prev
           /\ a.nodes[i].next = b.nodes[i].next
           /\ i \notin except => a.nodes[i].resource = b.nodes[i].resource

\* C21: remove_node(h) for an in-range position h that is not the position of
\* a node, on a non-empty ring and on an empty ring and for every h including
\* 0, returns normally and leaves nodes, links, head and resources unchanged.
C21_RemoveAbsentIsNoOp ==
    ~ringPanicked =>
        \A h \in InRange \ MemberValues :
            LET res == remove_node(ring, h)
            IN  ~res.panic /\ SameRing(res.rs, ring, {})

\* C22: move_resource(dst, src, force) fails whenever dst or src is not the
\* position of an existing node, and when it fails no resource has been
\* removed from or added to any node.
C22_MoveResourceFailsUntouched ==
    ~ringPanicked =>
        \A dst, src \in InRange : \A force \in BOOLEAN :
            (dst \notin MemberValues \/ src \notin MemberValues) =>
                LET res == move_resource(ring, dst, src, force)
                IN  res.panic /\ SameRing(res.rs, ring, {})

\* C23: add_node(h) and add_resource(r) with a position outside
\* [0, 2^k - 1] fail before any node, link, head or resource of the ring is
\* changed: in every state each such call panics on the unchanged ring, and a
\* step of add_node or add_resource that panicked where no in-range position
\* panics has left the ring as it was.
C23_OutOfRangeFailsFirst ==
    /\ [](~ringPanicked =>
              \A h \in Positions \ InRange :
                  /\ add_node(ring, h) = Panic(ring)
                  /\ add_resource(ring, h) = Panic(ring))
    /\ [][(/\ rop' \in {"add_node", "add_resource"}
           /\ ringPanicked'
           /\ \A h \in InRange : ~add_node(ring, h).panic /\ ~add_resource(ring, h).panic) =>
              ring' = ring]_vars

\* add_node has panicked on a ring of two nodes that holds a resource, where
\* every in-range position would have been accepted
C23_Witness ==
    /\ rop = "add_node" /\ ringPanicked
    /\ AscendingCycle
    /\ Cardinality(members) = 2
    /\ \E n \in members : Node(n).resource # {}
    /\ \A h \in InRange : ~add_node(ring, h).panic

\* C24: move_resource(dst, src, force) with dst and src two existing distinct
\* nodes moves a resource r of src to dst iff force is true or
\* d(r, dst) < d(r, src); every other resource of src stays on src, resources
\* already on dst stay on dst, and no other node's resources, no link and not
\* head is changed.
C24_MoveResourceMovesNearer ==
    ~ringPanicked =>
        \A n, m \in members : \A force \in BOOLEAN :
            n # m =>
                LET dst == Node(n).value
                    src == Node(m).value
                    res == move_resource(ring, dst, src, force)
                    Moved == {r \in Node(m).resource :
                                 force \/ distance(ring, r, dst) < distance(ring, r, src)}
                IN  /\ ~res.panic
                    /\ SameRing(res.rs, ring, {n, m})
                    /\ res.rs.nodes[m].resource = Node(m).resource \ Moved
                    /\ res.rs.nodes[n].resource = Node(n).resource \cup Moved

\* C25: for the ring width k and all positions a, b in [0, 2^k - 1]:
\* d(a, a) = 0, d(a, b) = b - a when a < b, d(a, b) = 2^k + b - a when a > b,
\* hence d(a, b) + d(b, a) = 2^k for a # b and 0 <= d(a, b) < 2^k.
C25_DistanceIsForwardArc ==
    \A a, b \in ring.min .. ring.max :
        LET d == distance(ring, a, b)
        IN  /\ a = b => d = 0
            /\ a < b => d = b - a
            /\ a > b => d = Pow2(ring.k) + b - a
            /\ a # b => d + distance(ring, b, a) = Pow2(ring.k)
            /\ 0 <= d /\ d < Pow2(ring.k)

\* lookup has wrapped past the maximum: a resource above every node is stored
\* on the minimum node, which only the distance of a > b can decide
C25_Witness ==
    /\ ~ringPanicked /\ AscendingCycle
    /\ Cardinality(members) >= 2
    /\ \E r \in Node(ring.head).resource :
           \A n \in members : Node(n).value < r

\* C26: on Ring(k=5), after add_node(12), add_node(18) and add_resource of
\* 24, 21, 16, 23, 2, 29, 28, 7, 10, node 18 owns {16} and node 12 the other
\* eight; after then add_node(5), add_node(27), add_node(30) the ownership is
\* 5:{2}, 12:{7,10}, 18:{16}, 27:{21,23,24}, 30:{28,29}; after then
\* remove_node(12) node 18 owns {7,10,16} and nodes 5, 27, 30 are unchanged.
C26_TestRingMigration ==
    /\ ~ringPanicked
    /\ (Len(ring.nodes) = 2 /\ resAdded = TestResources) =>
           resources(ring) = {<<12, {2, 7, 10, 21, 23, 24, 28, 29}>>, <<18, {16}>>}
    /\ (Len(ring.nodes) = 5 /\ TestRemoved \in MemberValues) =>
           resources(ring) = {<<5, {2}>>, <<12, {7, 10}>>, <<18, {16}>>,
                              <<27, {21, 23, 24}>>, <<30, {28, 29}>>}
    /\ (Len(ring.nodes) = 5 /\ TestRemoved \notin MemberValues) =>
           resources(ring) = {<<5, {2}>>, <<18, {7, 10, 16}>>,
                              <<27, {21, 23, 24}>>, <<30, {28, 29}>>}

\* the end of the test: node 12 has been removed from the ring of five nodes
C26_Witness ==
    /\ rop = "remove_node" /\ ~ringPanicked
    /\ Len(ring.nodes) = 5
    /\ MemberValues = {5, 18, 27, 30}
    /\ resAdded = TestResources

\* the handles of locks that are pred, self or succ come in that order: first
\* only pred, then only self, then only succ
InLockOrder(locks, pred, self, succ) ==
    LET mine == SelectSeq(locks, LAMBDA n : n \in {pred, self, succ})
    IN  \E a, b \in 0 .. Len(mine) :
            /\ a <= b
            /\ \A i \in 1 .. Len(mine) :
                   mine[i] = IF i <= a THEN pred ELSE IF i <= b THEN self ELSE succ

\* C27: every ring mutator (add_node, remove_node) acquires the node handles
\* it locks in the fixed order predecessor, then the node itself, then
\* successor.
C27_LocksPredecessorSelfSuccessor ==
    ~ringPanicked =>
        /\ \A h \in InRange \ MemberValues :
               members # {} =>
                   LET new_node == Len(ring.nodes) + 1
                       found == ring_lookup(ring, h)
                       succ == IF found # None THEN found ELSE ring.head
                   IN  InLockOrder(add_node_locks(ring, h, new_node),
                                   Node(succ).prev, new_node, succ)
        /\ \A n \in members :
               InLockOrder(unlink_locks(ring, n), Node(n).prev, n, Node(n).next)

\* C29: for every CountMinSketch and every sequence of update(item, freq)
\* calls, estimate(x) is at least the sum of the freq values of all
\* update(x, freq) calls made so far, for every item x.
C29_EstimateNeverBelowSum ==
    ~cmsPanicked =>
        \A x \in Items : estimate(cms, seeded, x) >= updated[x]

\* C30: on a newly constructed CountMinSketch(eps, delta) with eps > 0 and
\* 0 < delta <= 1, for every derived depth including the depth derived from
\* delta = 1, estimate(x) returns 0 for every item x before any update.
C30_NewSketchEstimatesZero ==
    updates = 0 => \A x \in Items : estimate(cms, seeded, x) = 0


(***************************************************************************)
(* Claims about the Bloom filter                                           *)
(***************************************************************************)

\* C31: after any sequence of insert calls, lookup(x) is true for every
\* item x that was inserted.
C31_InsertedIsFound ==
    \A x \in bloomInserted : bloom_lookup(bloom, bloomHashes, x)

\* two inserts into a filter with k >= 1, and an item never inserted that
\* lookup does not find
C31_Witness ==
    /\ bloom.k >= 1
    /\ bloomCalls = 2
    /\ Cardinality(bloomInserted) = 1
    /\ \E y \in Items \ bloomInserted : ~bloom_lookup(bloom, bloomHashes, y)
    /\ C31_InsertedIsFound

\* C32: lookup on a newly constructed filter returns false for every item.
C32_NewFilterFindsNothing ==
    bloomCalls = 0 => \A x \in Items : ~bloom_lookup(bloom, bloomHashes, x)


(***************************************************************************)
(* Claims about the ring on a BTreeMap                                     *)
(***************************************************************************)

\* C33: after add_nodes(ns), a lookup with the name of any node of ns
\* returns the node of that name, whatever was added or looked up before.
\* (Stated for the calls whose nodes are all in the map afterwards: no two
\* of their keys collided.)
C33_LookupFindsAddedNode ==
    (/\ chOp.kind = "add_nodes"
     /\ \A i \in DOMAIN chOp.names : \E k \in DOMAIN ch.nodes : ch.nodes[k] = chOp.names[i]) =>
        \A i \in DOMAIN chOp.names :
            \A hashes \in HashTables(ch.hasher, <<chOp.names[i]>>) :
                ch_lookup(ch, hashes, chOp.names[i]).found = chOp.names[i]

\* C40: add_nodes([n]) followed by remove_nodes([n']) with n' of the name
\* of n leaves the node map as it was before the add.  (Stated for the
\* adds that put n under a key that was free.)
C40_RemoveUndoesAdd ==
    (/\ chOp.kind = "add_nodes" /\ Len(chOp.names) = 1
     /\ Cardinality(DOMAIN ch.nodes) = Cardinality(DOMAIN chOp.before) + 1) =>
        \A hashes \in HashTables(ch.hasher, chOp.names) :
            remove_nodes(ch, hashes, chOp.names).nodes = chOp.before


(***************************************************************************)
(* Further claims about the filter                                         *)
(***************************************************************************)
ContinuedSlots(f) == {i \in 0 .. (f.size - 1) : is_continued(f.filter[i])}

\* the key of the insert step, if the step is an insert that starts a new
\* run: its home bucket is not occupied and the table is not resized
StartsNewRun(key) ==
    /\ op' = "insert" /\ ~qfHung'
    /\ inserted'[key] # inserted[key]
    /\ qf.entries < qf.size
    /\ ~is_occupied(qf.filter[split(qf, key).quotient])

\* C34: insert sets continued=true on the slot after insert_pos only when
\* the remainder went to the head of a run that existed already; when the
\* key starts a new run, every stored remainder keeps its continued bit (so
\* the table has as many continued bits after the call as before it).
C34_NewRunKeepsContinuedBits ==
    [][\A key \in Keys : StartsNewRun(key) =>
           Cardinality(ContinuedSlots(qf')) = Cardinality(ContinuedSlots(qf))]_vars


StoredSlots(f) == {i \in DOMAIN f.filter : ~is_empty(f.filter[i])}

\* C35: in every state reached through new, insert, resize and merge the
\* number of non-empty slots equals entries, size equals 2^q and the length
\* of the table, and entries <= size.
C35_EntriesCountsStoredSlots ==
    \A f \in {qf, other} :
        /\ Cardinality(StoredSlots(f)) = f.entries
        /\ f.size = Pow2(f.q)
        /\ DOMAIN f.filter = 0 .. (f.size - 1)
        /\ f.entries <= f.size

\* a merged table grown beyond its first size that holds three or more
\* remainders, one of them moved from its bucket, and a non-empty other
C35_Witness ==
    /\ ~qfHung /\ ~qfPanicked
    /\ op = "merge"
    /\ qf.q > q0
    /\ qf.entries >= 3
    /\ other.entries >= 1
    /\ \E i \in Slots : is_shifted(qf.filter[i])
    /\ C35_EntriesCountsStoredSlots


\* keys that agree in their low q + r bits, for the q and r of the filter
SameLowBits(k1, k2) == k1 % Pow2(qf.q + qf.r) = k2 % Pow2(qf.q + qf.r)

\* C37: insert and lookup use only the low q + r bits of the key: for keys
\* that agree modulo 2^(q+r), insert gives identical tables from the same
\* state and lookup gives the same answer in every state.
C37_OnlyLowBitsCount ==
    ~qfHung =>
        \A k1, k2 \in Keys : SameLowBits(k1, k2) =>
            /\ qf_insert(qf, k1) = qf_insert(qf, k2)
            /\ qf_lookup(qf, k1) = qf_lookup(qf, k2)


\* ---- the loops of the filter with n steps allowed to each ----

\* the outer loop of find_run_head (quotient_filter.rs:97-108): at most
\* rounds iterations, at most n steps of each inner loop
RECURSIVE RunWalkIn(_, _, _, _, _, _)
RunWalkIn(f, run_head, probe, home_idx, rounds, n) ==
    IF probe = home_idx THEN run_head
    ELSE IF rounds = 0 THEN Diverged
    ELSE LET rh == SkipContinued(f, next_index(f, run_head), n + 1)
             pr == SkipUnoccupied(f, next_index(f, probe), n + 1)
         IN  IF rh = Diverged \/ pr = Diverged THEN Diverged
             ELSE RunWalkIn(f, rh, pr, home_idx, rounds - 1, n)

\* find_run_head (quotient_filter.rs:91-109)
FindRunHeadIn(f, home_idx, n) ==
    LET bucket == WalkBack(f, home_idx, n + 1)
    IN  IF bucket = Diverged THEN Diverged
        ELSE RunWalkIn(f, bucket, bucket, home_idx, n, n)

\* lookup (quotient_filter.rs:264-286) stops within n steps of each loop
LookupIn(f, key, n) ==
    LET sp == split(f, key)
    IN  is_occupied(f.filter[sp.quotient]) =>
            \E run_head \in {FindRunHeadIn(f, sp.quotient, n)} :
                /\ run_head # Diverged
                /\ LookupTail(f, next_index(f, run_head), sp.remainder, n + 1) # "hang"

\* the loops of insert after its resize check (quotient_filter.rs:210-237)
InsertIn(f, key, n) ==
    LET sp == split(f, key)
        f1 == [f EXCEPT !.filter[sp.quotient] = set_occupied(@, TRUE)]
    IN  ~is_empty(f.filter[sp.quotient]) =>
            \E run_head \in {FindRunHeadIn(f1, sp.quotient, n)} :
                /\ run_head # Diverged
                /\ \E insert_pos \in
                       {IF remainder(f1.filter[run_head]) < sp.remainder
                        THEN ScanRun(f1, run_head, sp.remainder, n) ELSE run_head} :
                       /\ insert_pos # Diverged
                       /\ FindEmpty(f1, insert_pos, n + 1) # Diverged

\* the walks of collect_keys (quotient_filter.rs:128-148), used by resize
\* and merge
CollectIn(f, n) ==
    \A b \in 0 .. (f.size - 1) : (f.entries > 0 /\ is_occupied(f.filter[b])) =>
        \E run_head \in {FindRunHeadIn(f, b, n)} :
            /\ run_head # Diverged
            /\ \E tail \in {VisitTail(f, next_index(f, run_head), n + 1)} :
                   \A m \in 1 .. Len(tail) : tail[m] # Diverged

\* the table insert works on: resized when it was full
Grown(f) == IF f.entries = f.size THEN resize(f).val ELSE f

RECURSIVE NoRelockFrom(_, _, _)
NoRelockFrom(trace, i, held) ==
    IF i > Len(trace) THEN TRUE
    ELSE IF trace[i].ev = "try_lock"
         THEN /\ trace[i].node \notin held
              /\ NoRelockFrom(trace, i + 1, held \cup {trace[i].node})
         ELSE NoRelockFrom(trace, i + 1, held \ {trace[i].node})

NoRelock(trace) == NoRelockFrom(trace, 1, {})

\* C39: in single-threaded use no ring operation (add_node, remove_node,
\* lookup, move_resource, add_resource, nodes, resources) locks a node whose
\* lock it still holds, also on a ring of one node, which is its own prev
\* and next, and for move_resource(x, x, _).
C39_NoLockHeldWhenLocked ==
    ~ringPanicked =>
        /\ \A hash \in Positions :
               /\ NoRelock(add_node_trace(ring, hash))
               /\ NoRelock(remove_node_trace(ring, hash))
               /\ NoRelock(lookup_trace(ring, hash))
               /\ NoRelock(add_resource_trace(ring, hash))
        /\ \A dest, src \in Positions : NoRelock(move_resource_trace(ring, dest, src))
        /\ NoRelock(nodes_trace(ring))
        /\ NoRelock(resources_trace(ring))

\* a ring of one node that is its own prev and next, left after another
\* node was removed: move_resource(x, x, _) and add_node lock that node
\* more than once
C39_Witness ==
    /\ ~ringPanicked
    /\ rop = "remove_node"
    /\ ring.head # None
    /\ Node(ring.head).next = ring.head /\ Node(ring.head).prev = ring.head
    /\ \E x \in InRange :
           /\ x = Node(ring.head).value
           /\ Len(SelectSeq(move_resource_trace(ring, x, x),
                            LAMBDA e : e.ev = "try_lock" /\ e.node = ring.head)) >= 2
    /\ \E hash \in InRange \ MemberValues :
           Len(SelectSeq(add_node_trace(ring, hash),
                         LAMBDA e : e.ev = "try_lock" /\ e.node = ring.head)) >= 2
    /\ C39_NoLockHeldWhenLocked

=============================================================================
